---- MODULE Spec2Model ----
(***************************************************************************)
(* RepositoryManager (src/repository-manager/repo_manager.py): the cache   *)
(* of cloned repositories, the two-phase patch application and the reset   *)
(* of the working tree, as a state machine whose steps are the subprocess  *)
(* launches and file-system operations of get_repo, apply_patch and        *)
(* reset_repo; the validate_patches loop that drives it                    *)
(* (src/experiments/validate_patches.py); and PatchValidator               *)
(* (src/repository-manager/patch_validator.py), whose validate_patch and   *)
(* repair_patch are computed on texts as sequences of characters.          *)
(***************************************************************************)
EXTENDS Integers, Sequences, FiniteSets, TLC

VARIABLES slot, tree, tmp, pc, frame, served, lastPatch, restored, loop, doc, agent

\* The state of the manager and of its callers' calls.
mgr == <<slot, tree, tmp, pc, frame, served, lastPatch, restored>>

vars == <<slot, tree, tmp, pc, frame, served, lastPatch, restored, loop, doc, agent>>

(* ------------------------------ inputs -------------------------------- *)

\* Repository names ('owner/name'), as sequences of characters.
RepoSlash == <<"o", "/", "r">>
RepoUnder == <<"o", "_", "r">>
Repos == {RepoSlash, RepoUnder}

\* Commit hashes, as sequences of hexadecimal characters.
CommitTip == <<"a", "b", "c", "d", "0", "1", "2", "3", "4">>
CommitOld == <<"a", "b", "c", "d", "0", "1", "2", "3", "5">>

\* The (repo, base_commit) arguments get_repo is called with.
Keys ==
  { [repo |-> RepoSlash, commit |-> CommitTip],
    [repo |-> RepoSlash, commit |-> CommitOld],
    [repo |-> RepoUnder, commit |-> CommitTip] }

NoKey == [repo |-> <<>>, commit |-> <<>>]

\* The commit at the head of a repository's default branch.
TipOf(repo) == IF repo = RepoSlash THEN CommitTip ELSE <<"0">>

\* Where a commit lies in the remote repository: "tip" (in a depth-1 clone),
\* "deep" (needs more history) or "none" (not a commit of that repository).
CommitDepth(repo, commit) ==
  IF repo # RepoSlash THEN "none"
  ELSE IF commit = CommitTip THEN "tip"
  ELSE "deep"

\* Files of a working tree: tracked at HEAD, or created by a patch.
Tracked == {"f1", "f2"}
NewFiles == {"n1"}

\* Patch texts: P1 edits f1 and creates n1, P2 edits f2, PBad is a malformed
\* diff, PEnc is text the temporary file's encoder rejects (a lone surrogate).
Patches == {"P1", "P2", "PBad", "PEnc"}
NoPatch == "none"

Mods(pt) == IF pt = "P1" THEN {"f1"} ELSE IF pt = "P2" THEN {"f2"} ELSE {}
Adds(pt) == IF pt = "P1" THEN {"n1"} ELSE {}
Touched(pt) == Mods(pt) \cup Adds(pt)
WellFormed(pt) == pt \in {"P1", "P2"}
Encodable(pt) == pt # "PEnc"

(* --------------------------- slot paths ------------------------------- *)

\* base_commit[:8]
AbbrevLen == 8

Min(a, b) == IF a < b THEN a ELSE b

\* repo.replace('/', '_')
Sanitize(repo) == [i \in 1..Len(repo) |-> IF repo[i] = "/" THEN "_" ELSE repo[i]]

\* base_commit[:8]
Abbrev(commit) == SubSeq(commit, 1, Min(AbbrevLen, Len(commit)))

\* os.path.join(self.cache_dir, repo_dir_name, base_commit[:8])
RepoPath(repo, commit) == <<Sanitize(repo), Abbrev(commit)>>

Paths == {RepoPath(k.repo, k.commit) : k \in Keys}
NoPath == <<>>

(* ------------------------- the file system ---------------------------- *)

\* A slot directory: "absent", "partial" (a clone in progress or killed),
\* "cloned" (a complete clone at the default branch) or "ready" (the
\* requested commit checked out); repo is what it was cloned from, head the
\* commit checked out, shallow whether its history is the depth-1 history.
NoSlot == [st |-> "absent", repo |-> <<>>, head |-> <<>>, shallow |-> FALSE]

IsRepo(s) == s.st \in {"cloned", "ready"}

Pristine == [content |-> [f \in Tracked |-> "head"], untracked |-> {}]

\* git apply --check: the patch is well formed, every file it edits has the
\* content of HEAD and no file it creates exists.
GitApplies(s, t, pt) ==
  /\ IsRepo(s)
  /\ WellFormed(pt)
  /\ \A f \in Mods(pt) : t.content[f] = "head"
  /\ Adds(pt) \cap t.untracked = {}

\* The working tree after git apply wrote the files W of the patch.
Written(t, pt, W) ==
  [content |-> [f \in Tracked |-> IF f \in W \cap Mods(pt) THEN pt ELSE t.content[f]],
   untracked |-> t.untracked \cup (W \cap Adds(pt))]

\* The diagnostic git apply prints for a patch it rejects.
GitStderr(pt) ==
  IF WellFormed(pt) THEN "error: patch does not apply" ELSE "error: corrupt patch"

\* Whether git checkout <commit> finds the commit in the slot's history.
Reachable(s, key) ==
  /\ IsRepo(s)
  /\ s.repo = key.repo
  /\ \/ CommitDepth(key.repo, key.commit) = "tip"
     \/ CommitDepth(key.repo, key.commit) = "deep" /\ ~s.shallow

(* --------------------------- processes -------------------------------- *)

Pipelines == {1, 2}
Sequential == {1}

NoRes == [kind |-> "none", success |-> FALSE, error |-> "", path |-> NoPath]

NoFrame ==
  [op |-> "none", key |-> NoKey, path |-> NoPath, patch |-> NoPatch,
   pre |-> Pristine, trace |-> <<>>, res |-> NoRes,
   seen |-> FALSE, fresh |-> FALSE, prev |-> NoPatch]

\* validate_patches before its first prediction: the stage of the loop body,
\* the number of predictions handled, the patch of the current prediction,
\* the result it will record, whether its reset_repo raised, and the last
\* entry appended to results.
NoLoop ==
  [stage |-> "top", n |-> 0, patch |-> NoPatch, result |-> "", error |-> "",
   resetRaised |-> FALSE, last |-> [result |-> "", error |-> ""]]

\* A text handed to the PatchValidator: the text (given is false for None),
\* what repair_patch made of it, what repair_patch made of that, the
\* validator's report, and the label classify_patch_error gave it.
NoReport == [valid |-> FALSE, issues |-> <<>>, has_diff_header |-> FALSE,
             has_hunks |-> FALSE]

NoDoc ==
  [stage |-> "none", given |-> TRUE, d |-> <<>>, r1 |-> <<>>, r2 |-> <<>>,
   report |-> NoReport, label |-> ""]

\* A best-of-N run of an agent: solve_adaptive or solve_fixed, its
\* arguments (predicted tokens and max_n of the former, fixed_n of the
\* latter, early_stop), the n it allocated, the results of its attempts
\* (success flag and len(model_patch)) and what it returned: the place of
\* the selected solution in the list, n_used and n_allocated.
NoAgent ==
  [stage |-> "none", mode |-> "none", predicted |-> 0, max_n |-> 0, fixed_n |-> 0,
   early_stop |-> FALSE, n |-> 0, solutions |-> <<>>, best |-> 0,
   n_used |-> 0, n_allocated |-> 0]

\* The repository manager and the validation loop before their first call.
InitManager ==
  /\ loop = NoLoop
  /\ slot = [q \in Paths |-> NoSlot]
  /\ tree = [q \in Paths |-> Pristine]
  /\ tmp = [p \in Pipelines |-> FALSE]
  /\ pc = [p \in Pipelines |-> "idle"]
  /\ frame = [p \in Pipelines |-> NoFrame]
  /\ served = {}
  /\ lastPatch = [q \in Paths |-> NoPatch]
  /\ restored = [q \in Paths |-> FALSE]

Init == InitManager /\ doc = NoDoc /\ agent = NoAgent

CanCall(p) == pc[p] \in {"idle", "done"}

\* The exception subprocess.run raises for an outcome of the child process.
Exc(o) ==
  IF o = "timeout" THEN "TimeoutExpired"
  ELSE IF o = "oserror" THEN "FileNotFoundError"
  ELSE "CalledProcessError"

Logged(p, step, o) == Append(frame[p].trace, <<step, o>>)

(* ----------------------------- get_repo ------------------------------- *)

\* The cache test left out: every call is a miss.
CacheHit_Never(s) == FALSE

\* os.path.exists(repo_path)
CacheHit(s) == s.st # "absent"

\* A subprocess.run call without a timeout argument, a git command without
\* a --depth argument.
NoTimeout == 0
NoDepth == 0

\* The --depth argument of each git command and the timeout argument of the
\* subprocess.run call issuing it.
StepArgs(step) ==
  IF step = "clone1" THEN [depth |-> 1, timeout |-> 300]
  ELSE IF step = "clone2" THEN [depth |-> NoDepth, timeout |-> 600]
  ELSE IF step = "fetch" THEN [depth |-> 1000, timeout |-> NoTimeout]
  ELSE [depth |-> NoDepth, timeout |-> NoTimeout]

\* get_repo without the except clause around the first checkout.
get_repo_next_NoDeepen(step, o) ==
  IF step = "clone1" THEN
    (IF o = "ok" THEN "gr_checkout1" ELSE IF o = "timeout" THEN "gr_clone2" ELSE "raise")
  ELSE IF step = "clone2" THEN
    (IF o = "ok" THEN "gr_checkout1" ELSE "raise")
  ELSE IF step = "checkout1" THEN
    (IF o = "ok" THEN "return" ELSE "raise")
  ELSE IF step = "fetch" THEN
    (IF o = "ok" THEN "gr_checkout2" ELSE "raise")
  ELSE
    (IF o = "ok" THEN "return" ELSE "raise")

\* get_repo without the except clause around the first clone.
get_repo_next_NoCloneRetry(step, o) ==
  IF step = "clone1" THEN
    (IF o = "ok" THEN "gr_checkout1" ELSE "raise")
  ELSE IF step = "clone2" THEN
    (IF o = "ok" THEN "gr_checkout1" ELSE "raise")
  ELSE IF step = "checkout1" THEN
    (IF o = "ok" THEN "return" ELSE IF o = "fail" THEN "gr_fetch" ELSE "raise")
  ELSE IF step = "fetch" THEN
    (IF o = "ok" THEN "gr_checkout2" ELSE "raise")
  ELSE
    (IF o = "ok" THEN "return" ELSE "raise")

\* get_repo with the first clone in 'except Exception'.
get_repo_next_RetryAny(step, o) ==
  IF step = "clone1" THEN
    (IF o = "ok" THEN "gr_checkout1" ELSE "gr_clone2")
  ELSE IF step = "clone2" THEN
    (IF o = "ok" THEN "gr_checkout1" ELSE "raise")
  ELSE IF step = "checkout1" THEN
    (IF o = "ok" THEN "return" ELSE IF o = "fail" THEN "gr_fetch" ELSE "raise")
  ELSE IF step = "fetch" THEN
    (IF o = "ok" THEN "gr_checkout2" ELSE "raise")
  ELSE
    (IF o = "ok" THEN "return" ELSE "raise")

\* The try/except structure of get_repo: what follows a step that ended
\* with outcome o: the next step, "return" or "raise".
get_repo_next(step, o) ==
  IF step = "clone1" THEN
    (IF o = "ok" THEN "gr_checkout1" ELSE IF o = "timeout" THEN "gr_clone2" ELSE "raise")
  ELSE IF step = "clone2" THEN
    (IF o = "ok" THEN "gr_checkout1" ELSE "raise")
  ELSE IF step = "checkout1" THEN
    (IF o = "ok" THEN "return" ELSE IF o = "fail" THEN "gr_fetch" ELSE "raise")
  ELSE IF step = "fetch" THEN
    (IF o = "ok" THEN "gr_checkout2" ELSE "raise")
  ELSE
    (IF o = "ok" THEN "return" ELSE "raise")

\* A step of get_repo ended with outcome o.
Advance(p, step, o) ==
  LET nxt == get_repo_next(step, o)
      tr == Logged(p, step, o)
  IN  /\ pc' = [pc EXCEPT ![p] = IF nxt \in {"raise", "return"} THEN "done" ELSE nxt]
      /\ frame' = [frame EXCEPT
           ![p].trace = tr,
           ![p].res = IF nxt = "raise"
                        THEN [NoRes EXCEPT !.kind = "raise", !.error = Exc(o)]
                      ELSE IF nxt = "return"
                        THEN [NoRes EXCEPT !.kind = "ret", !.success = TRUE,
                                           !.path = frame[p].path]
                      ELSE NoRes]
      /\ served' = IF nxt = "return" THEN served \cup {frame[p].key} ELSE served

\* get_repo, lines 41-53: derive the slot path, return it if it exists,
\* otherwise create the parent directory and go on to clone.
GetRepoCall(p, key) ==
  LET path == RepoPath(key.repo, key.commit)
      f0 == [NoFrame EXCEPT !.op = "get_repo", !.key = key, !.path = path,
                            !.seen = key \in served]
  IN  /\ CanCall(p)
      /\ IF CacheHit(slot[path])
           THEN /\ pc' = [pc EXCEPT ![p] = "done"]
                /\ frame' = [frame EXCEPT ![p] =
                     [f0 EXCEPT !.res = [NoRes EXCEPT !.kind = "ret", !.success = TRUE,
                                                      !.path = path]]]
                /\ served' = served \cup {key}
           ELSE /\ pc' = [pc EXCEPT ![p] = "gr_clone1"]
                /\ frame' = [frame EXCEPT ![p] = f0]
                /\ UNCHANGED served
      /\ UNCHANGED <<slot, tree, tmp, lastPatch, restored>>

\* git clone is launched (lines 59-64 and 67-72): it refuses a destination
\* that exists and is not empty, otherwise it creates the directory; a
\* child that stalls before touching the file system is killed at the timeout.
CloneBegin(p) ==
  /\ pc[p] \in {"gr_clone1", "gr_clone2"}
  /\ LET step == IF pc[p] = "gr_clone1" THEN "clone1" ELSE "clone2"
         path == frame[p].path
     IN  IF slot[path].st # "absent"
           THEN /\ Advance(p, step, "fail")
                /\ UNCHANGED slot
           ELSE \E o \in {"started"} \cup
                         (IF StepArgs(step).timeout # NoTimeout THEN {"timeout"} ELSE {}) :
                  IF o = "started"
                    THEN /\ slot' = [slot EXCEPT ![path] = [NoSlot EXCEPT !.st = "partial"]]
                         /\ pc' = [pc EXCEPT ![p] = IF step = "clone1" THEN "gr_clone1_run"
                                                   ELSE "gr_clone2_run"]
                         /\ UNCHANGED <<frame, served>>
                    ELSE /\ Advance(p, step, "timeout")
                         /\ UNCHANGED slot
  /\ UNCHANGED <<tree, tmp, lastPatch, restored>>

\* The running git clone ends: it completes, it fails and removes the
\* directory it created, or it is killed at the timeout and leaves it.
CloneEnd(p) ==
  /\ pc[p] \in {"gr_clone1_run", "gr_clone2_run"}
  /\ LET step == IF pc[p] = "gr_clone1_run" THEN "clone1" ELSE "clone2"
         path == frame[p].path
         repo == frame[p].key.repo
     IN  \E o \in {"ok", "fail", "timeout"} :
           /\ slot' = [slot EXCEPT ![path] =
                IF o = "ok"
                  THEN [st |-> "cloned", repo |-> repo, head |-> TipOf(repo),
                        shallow |-> (StepArgs(step).depth = 1)]
                ELSE IF o = "fail" THEN NoSlot
                ELSE @]
           /\ tree' = [tree EXCEPT ![path] = IF o = "ok" THEN Pristine ELSE @]
           /\ Advance(p, step, o)
  /\ UNCHANGED <<tmp, lastPatch, restored>>

\* git checkout base_commit in the slot (lines 76-81 and 90-95).
Checkout(p) ==
  /\ pc[p] \in {"gr_checkout1", "gr_checkout2"}
  /\ LET step == IF pc[p] = "gr_checkout1" THEN "checkout1" ELSE "checkout2"
         path == frame[p].path
         s == slot[path]
         o == IF s.st = "absent" THEN "oserror"
              ELSE IF Reachable(s, frame[p].key) THEN "ok" ELSE "fail"
     IN  /\ slot' = [slot EXCEPT ![path] =
              IF o = "ok" THEN [@ EXCEPT !.st = "ready", !.head = frame[p].key.commit]
              ELSE @]
         /\ Advance(p, step, o)
  /\ UNCHANGED <<tree, tmp, lastPatch, restored>>

\* git fetch --depth 1000 in the slot (lines 84-89).
Fetch(p) ==
  /\ pc[p] = "gr_fetch"
  /\ LET path == frame[p].path
         s == slot[path]
     IN  \E o \in (IF s.st = "absent" THEN {"oserror"}
                   ELSE IF IsRepo(s) THEN {"ok", "fail"} ELSE {"fail"}) :
           /\ slot' = [slot EXCEPT ![path] =
                IF o = "ok" THEN [@ EXCEPT !.shallow = FALSE] ELSE @]
           /\ Advance(p, "fetch", o)
  /\ UNCHANGED <<tree, tmp, lastPatch, restored>>

(* ---------------------------- apply_patch ----------------------------- *)

\* An apply_patch attempt on the path has ended.
Attempted(path, pt) ==
  /\ lastPatch' = [lastPatch EXCEPT ![path] = pt]
  /\ restored' = [restored EXCEPT ![path] = FALSE]

\* The exit code of the dry run ignored.
DryRunPassed_Always(o) == TRUE

\* result.returncode == 0 (line 130)
DryRunPassed(o) == o = "ok"

\* apply_patch, lines 117-119: the temporary file is created and the patch
\* text written to it; text the encoder rejects makes write raise inside the
\* with block, before the try block is entered.
ApplyCall(p, path, pt) ==
  LET f0 == [NoFrame EXCEPT !.op = "apply_patch", !.path = path, !.patch = pt,
                            !.pre = tree[path], !.fresh = restored[path],
                            !.prev = lastPatch[path]]
  IN  /\ CanCall(p)
      /\ tmp' = [tmp EXCEPT ![p] = TRUE]
      /\ IF Encodable(pt)
           THEN /\ pc' = [pc EXCEPT ![p] = "ap_check"]
                /\ frame' = [frame EXCEPT ![p] = f0]
                /\ UNCHANGED <<lastPatch, restored>>
           ELSE /\ pc' = [pc EXCEPT ![p] = "done"]
                /\ frame' = [frame EXCEPT ![p] =
                     [f0 EXCEPT !.res = [NoRes EXCEPT !.kind = "raise",
                                                      !.error = "UnicodeEncodeError"]]]
                /\ Attempted(path, pt)
      /\ UNCHANGED <<slot, tree, served>>

\* git apply --check (lines 123-128), the branch on its exit code and, on
\* the paths that leave the try block, the finally clause (lines 150-153).
ApplyCheck(p) ==
  /\ pc[p] = "ap_check"
  /\ LET path == frame[p].path
         pt == frame[p].patch
         o == IF slot[path].st = "absent" THEN "oserror"
              ELSE IF GitApplies(slot[path], tree[path], pt) THEN "ok" ELSE "fail"
         tr == Logged(p, "check", o)
     IN  IF o # "oserror" /\ DryRunPassed(o)
           THEN /\ pc' = [pc EXCEPT ![p] = "ap_apply"]
                /\ frame' = [frame EXCEPT ![p].trace = tr]
                /\ UNCHANGED <<tmp, lastPatch, restored>>
           ELSE /\ pc' = [pc EXCEPT ![p] = "done"]
                /\ frame' = [frame EXCEPT
                     ![p].trace = tr,
                     ![p].res = IF o = "oserror"
                                  THEN [NoRes EXCEPT !.kind = "raise", !.error = Exc(o)]
                                  ELSE [NoRes EXCEPT !.kind = "ret", !.success = FALSE,
                                                     !.error = GitStderr(pt)]]
                /\ tmp' = [tmp EXCEPT ![p] = FALSE]
                /\ Attempted(path, pt)
  /\ UNCHANGED <<slot, tree, served>>

\* git apply (lines 132-138), the except clause (lines 145-149) and the
\* finally clause: git checks the patch again and writes nothing if it does
\* not apply; a failure while it writes leaves the files already written.
ApplyMutate(p) ==
  /\ pc[p] = "ap_apply"
  /\ LET path == frame[p].path
         pt == frame[p].patch
         s == slot[path]
         t == tree[path]
         outs == IF s.st = "absent" THEN {"oserror"}
                 ELSE IF GitApplies(s, t, pt) THEN {"ok", "fail"} ELSE {"fail"}
     IN  \E o \in outs, W \in SUBSET Touched(pt) :
           /\ o = "ok" => W = Touched(pt)
           /\ o = "fail" => W # Touched(pt) /\ (~GitApplies(s, t, pt) => W = {})
           /\ o = "oserror" => W = {}
           /\ tree' = [tree EXCEPT ![path] = Written(t, pt, W)]
           /\ pc' = [pc EXCEPT ![p] = "done"]
           /\ frame' = [frame EXCEPT
                ![p].trace = Logged(p, "apply", o),
                ![p].res = IF o = "ok"
                             THEN [NoRes EXCEPT !.kind = "ret", !.success = TRUE]
                           ELSE IF o = "fail"
                             THEN [NoRes EXCEPT !.kind = "ret", !.success = FALSE,
                                     !.error = IF GitApplies(s, t, pt)
                                                 THEN "error: unable to write file"
                                                 ELSE GitStderr(pt)]
                           ELSE [NoRes EXCEPT !.kind = "raise", !.error = Exc(o)]]
           /\ tmp' = [tmp EXCEPT ![p] = FALSE]
           /\ Attempted(path, pt)
  /\ UNCHANGED <<slot, served>>

(* ----------------------------- reset_repo ----------------------------- *)

\* reset_repo without its second command.
ResetSteps_NoClean == <<"reset">>

\* The git commands of reset_repo, in the order it runs them
\* (git reset --hard HEAD, then git clean -fdx).
ResetSteps == <<"reset", "clean">>

\* check=False: a failed step is swallowed.
ResetRaises_Never(o) == FALSE

\* check=True: a step that does not exit 0 raises.
ResetRaises(o) == o # "ok"

\* reset_repo is called.
ResetCall(p, path) ==
  /\ CanCall(p)
  /\ pc' = [pc EXCEPT ![p] = "rs_run"]
  /\ frame' = [frame EXCEPT ![p] =
       [NoFrame EXCEPT !.op = "reset_repo", !.path = path]]
  /\ UNCHANGED <<slot, tree, tmp, served, lastPatch, restored>>

\* The working tree after a git command of reset_repo succeeded.
AfterGit(cmd, t) ==
  IF cmd = "reset" THEN [t EXCEPT !.content = [f \in Tracked |-> "head"]]
  ELSE [t EXCEPT !.untracked = {}]

\* The next subprocess of reset_repo runs (lines 162-167, 168-173).
ResetRun(p) ==
  /\ pc[p] = "rs_run"
  /\ LET path == frame[p].path
         s == slot[path]
         i == Len(frame[p].trace) + 1
         cmd == ResetSteps[i]
         outs == IF s.st = "absent" THEN {"oserror"}
                 ELSE IF IsRepo(s) THEN {"ok", "fail"} ELSE {"fail"}
     IN  \E o \in outs :
           LET raises == o = "oserror" \/ ResetRaises(o)
               last == i = Len(ResetSteps)
           IN  /\ tree' = [tree EXCEPT ![path] = IF o = "ok" THEN AfterGit(cmd, @) ELSE @]
               /\ pc' = [pc EXCEPT ![p] = IF raises \/ last THEN "done" ELSE "rs_run"]
               /\ frame' = [frame EXCEPT
                    ![p].trace = Logged(p, cmd, o),
                    ![p].res = IF raises
                                 THEN [NoRes EXCEPT !.kind = "raise", !.error = Exc(o)]
                               ELSE IF last
                                 THEN [NoRes EXCEPT !.kind = "ret", !.success = TRUE]
                               ELSE NoRes]
               /\ restored' = [restored EXCEPT ![path] =
                    IF ~raises /\ last THEN TRUE ELSE @]
  /\ UNCHANGED <<slot, tmp, served, lastPatch>>

(* ------------------------- blocking children ------------------------- *)

\* The git step a call is at: the one it issues next or waits for.
CurrentStep(p) ==
  IF pc[p] \in {"gr_clone1", "gr_clone1_run"} THEN "clone1"
  ELSE IF pc[p] \in {"gr_clone2", "gr_clone2_run"} THEN "clone2"
  ELSE IF pc[p] = "gr_checkout1" THEN "checkout1"
  ELSE IF pc[p] = "gr_fetch" THEN "fetch"
  ELSE IF pc[p] = "gr_checkout2" THEN "checkout2"
  ELSE IF pc[p] = "ap_check" THEN "check"
  ELSE IF pc[p] = "ap_apply" THEN "apply"
  ELSE IF pc[p] = "rs_run" THEN ResetSteps[Len(frame[p].trace) + 1]
  ELSE "none"

\* The git child of the current step never exits: subprocess.run, called
\* without a timeout, waits for it for ever (a child of a step that has a
\* timeout is killed, the "timeout" outcome of that step).
Hang(p) ==
  /\ CurrentStep(p) # "none"
  /\ StepArgs(CurrentStep(p)).timeout = NoTimeout
  /\ pc' = [pc EXCEPT ![p] = "hung"]
  /\ UNCHANGED <<slot, tree, tmp, frame, served, lastPatch, restored, loop, doc, agent>>

(* -------------------------- validate_patches -------------------------- *)

\* The number of predictions validate_patches is given.
MaxPreds == 3

\* len(patch) < 10 (validate_patches.py line 91)
MinPatchLen == 10

\* The model_patch texts of predictions: those of Patches and a text
\* shorter than MinPatchLen.
LoopPatches == Patches \cup {"PShort"}

\* len(patch)
PatchLen(pt) == IF pt = "PShort" THEN 4 ELSE 40

\* try: reset_repo(repo_path) / except: pass (lines 108-111): whether the
\* loop body goes on after reset_repo ended.
ResetSwallowed(raised) == TRUE

\* The loop takes the next prediction (lines 59-75): one without metadata
\* is skipped, otherwise get_repo is called with its repo and base_commit.
LoopTop(p) ==
  /\ loop.stage = "top"
  /\ loop.n < MaxPreds
  /\ \E known \in BOOLEAN, key \in Keys, pt \in LoopPatches :
       IF known
         THEN /\ GetRepoCall(p, key)
              /\ loop' = [loop EXCEPT !.stage = "get", !.patch = pt, !.result = "",
                                      !.error = "", !.resetRaised = FALSE]
         ELSE /\ key = CHOOSE k \in Keys : TRUE
              /\ pt = "PShort"
              /\ loop' = [loop EXCEPT !.n = @ + 1]
              /\ UNCHANGED mgr

\* A git step of the manager call the loop body is waiting for.
LoopInner(p) ==
  \/ loop.stage = "get" /\ CloneBegin(p) /\ UNCHANGED <<loop, doc, agent>>
  \/ loop.stage = "get" /\ CloneEnd(p) /\ UNCHANGED <<loop, doc, agent>>
  \/ loop.stage = "get" /\ Checkout(p) /\ UNCHANGED <<loop, doc, agent>>
  \/ loop.stage = "get" /\ Fetch(p) /\ UNCHANGED <<loop, doc, agent>>
  \/ loop.stage = "apply" /\ ApplyCheck(p) /\ UNCHANGED <<loop, doc, agent>>
  \/ loop.stage = "apply" /\ ApplyMutate(p) /\ UNCHANGED <<loop, doc, agent>>
  \/ loop.stage = "reset" /\ ResetRun(p) /\ UNCHANGED <<loop, doc, agent>>

\* get_repo ended (lines 76-95): its exception is recorded as clone_failed
\* and the loop continues; otherwise a short patch is recorded as
\* empty_patch and reset_repo called, any other patch is applied.
LoopAfterGet(p) ==
  /\ loop.stage = "get"
  /\ pc[p] = "done"
  /\ LET res == frame[p].res IN
     IF res.kind = "raise"
       THEN /\ loop' = [loop EXCEPT !.stage = "top", !.n = @ + 1,
                          !.last = [result |-> "clone_failed", error |-> res.error]]
            /\ UNCHANGED mgr
     ELSE IF PatchLen(loop.patch) < MinPatchLen
       THEN /\ ResetCall(p, res.path)
            /\ loop' = [loop EXCEPT !.stage = "reset", !.result = "empty_patch",
                          !.error = "Patch is empty or too short"]
     ELSE /\ ApplyCall(p, res.path, loop.patch)
          /\ loop' = [loop EXCEPT !.stage = "apply"]

\* apply_patch ended (lines 95-109): an exception leaves validate_patches;
\* a result is classified and reset_repo called.
LoopAfterApply(p) ==
  /\ loop.stage = "apply"
  /\ pc[p] = "done"
  /\ LET res == frame[p].res IN
     IF res.kind = "raise"
       THEN /\ loop' = [loop EXCEPT !.stage = "raised", !.error = res.error]
            /\ UNCHANGED mgr
       ELSE /\ ResetCall(p, frame[p].path)
            /\ loop' = [loop EXCEPT !.stage = "reset",
                          !.result = IF res.success THEN "success" ELSE "apply_error",
                          !.error = res.error]

\* reset_repo ended (lines 108-120): the entry of the prediction is
\* appended to results.
LoopAfterReset(p) ==
  /\ loop.stage = "reset"
  /\ pc[p] = "done"
  /\ LET raised == frame[p].res.kind = "raise" IN
     IF raised /\ ~ResetSwallowed(raised)
       THEN loop' = [loop EXCEPT !.stage = "raised", !.resetRaised = TRUE,
                                 !.error = frame[p].res.error]
       ELSE loop' = [loop EXCEPT !.stage = "top", !.n = @ + 1, !.resetRaised = raised,
                       !.last = [result |-> loop.result, error |-> loop.error]]
  /\ UNCHANGED mgr

(* ----------------------------- diff texts ----------------------------- *)

\* Texts are sequences of characters.
LF == "\n"
CR == "\r"
CRLF == <<CR, LF>>

Digits == <<"0", "1", "2", "3", "4", "5", "6", "7", "8", "9">>
IsDigit(c) == \E k \in 1..Len(Digits) : Digits[k] = c

\* int(s) for a non-empty string of digits
RECURSIVE ToInt(_)
ToInt(ds) ==
  IF ds = <<>> THEN 0
  ELSE 10 * ToInt(SubSeq(ds, 1, Len(ds) - 1))
         + (CHOOSE k \in 0..9 : Digits[k + 1] = ds[Len(ds)])

\* str(n) for n >= 0, as an f-string formats it
RECURSIVE ToStr(_)
ToStr(n) ==
  IF n < 10 THEN <<Digits[n + 1]>> ELSE ToStr(n \div 10) \o <<Digits[(n % 10) + 1]>>

\* t.startswith(pre), t.endswith(suf), sub in t
StartsWith(t, pre) == Len(t) >= Len(pre) /\ SubSeq(t, 1, Len(pre)) = pre
EndsWith(t, suf) ==
  Len(t) >= Len(suf) /\ SubSeq(t, Len(t) - Len(suf) + 1, Len(t)) = suf
Contains(t, sub) ==
  \E i \in 1..(Len(t) - Len(sub) + 1) : SubSeq(t, i, i + Len(sub) - 1) = sub

\* t[i-1:j]
Slice(t, i, j) == SubSeq(t, i, Min(j, Len(t)))

\* t.replace('\r\n', '\n'): from the left, the text up to the first
\* occurrence, LF in its place, and the rest of the text replaced likewise
RECURSIVE ReplaceCRLF(_)
ReplaceCRLF(t) ==
  LET found == {i \in 1..(Len(t) - 1) : SubSeq(t, i, i + 1) = CRLF}
  IN  IF found = {} THEN t
      ELSE LET i == CHOOSE j \in found : \A k \in found : j <= k
           IN  SubSeq(t, 1, i - 1) \o <<LF>> \o ReplaceCRLF(SubSeq(t, i + 2, Len(t)))

\* t.split('\n')
RECURSIVE Split(_)
Split(t) ==
  IF \A i \in 1..Len(t) : t[i] # LF THEN <<t>>
  ELSE LET i == CHOOSE j \in 1..Len(t) :
                  t[j] = LF /\ \A k \in 1..(j - 1) : t[k] # LF
       IN  <<SubSeq(t, 1, i - 1)>> \o Split(SubSeq(t, i + 1, Len(t)))

\* '\n'.join(lines)
RECURSIVE Join(_)
Join(lines) ==
  IF lines = <<>> THEN <<>>
  ELSE IF Len(lines) = 1 THEN lines[1]
  ELSE lines[1] \o <<LF>> \o Join(Tail(lines))

\* The concatenation of a sequence of texts.
RECURSIVE Flatten(_)
Flatten(ts) == IF ts = <<>> THEN <<>> ELSE Head(ts) \o Flatten(Tail(ts))

(* ---------------------------- repair_patch ---------------------------- *)

HunkMark == <<"@", "@">>
DiffGit == <<"d", "i", "f", "f", " ", "-", "-", "g", "i", "t">>

\* The number of digits of line from index i on.
DigitRun(line, i) ==
  LET ends == {j \in i..(Len(line) + 1) : \A k \in i..(j - 1) : IsDigit(line[k])}
  IN  (CHOOSE j \in ends : \A e \in ends : e <= j) - i

\* (\d+),?(\d*) matched at index i of line: whether it matches, the two
\* groups, and the index after the match.
MatchRange(line, i) ==
  LET n1 == DigitRun(line, i)
      j == i + n1
      comma == j <= Len(line) /\ line[j] = ","
      n2 == IF comma THEN DigitRun(line, j + 1) ELSE 0
  IN  [ok |-> n1 >= 1,
       start |-> SubSeq(line, i, j - 1),
       count |-> IF comma THEN SubSeq(line, j + 1, j + n2) ELSE <<>>,
       next |-> IF comma THEN j + 1 + n2 ELSE j]

\* re.match(r'@@ -(\d+),?(\d*) \+(\d+),?(\d*) @@(.*)', line): whether it
\* matches, and groups 1 to 5.
MatchHeader(line) ==
  LET old == MatchRange(line, 5)
      new == MatchRange(line, old.next + 2)
      ok == /\ StartsWith(line, <<"@", "@", " ", "-">>)
            /\ old.ok
            /\ Slice(line, old.next, old.next + 1) = <<" ", "+">>
            /\ new.ok
            /\ Slice(line, new.next, new.next + 2) = <<" ", "@", "@">>
  IN  IF ok
        THEN [ok |-> TRUE, old_start |-> old.start, old_count |-> old.count,
              new_start |-> new.start, new_count |-> new.count,
              context |-> SubSeq(line, new.next + 3, Len(line))]
        ELSE [ok |-> FALSE, old_start |-> <<>>, old_count |-> <<>>,
              new_start |-> <<>>, new_count |-> <<>>, context |-> <<>>]

\* The number of lines of body whose first character is one of chars
\* (lines 154-167; an empty line is skipped).
CountLines(body, chars) ==
  Cardinality({i \in 1..Len(body) : body[i] # <<>> /\ body[i][1] \in chars})

\* Empty lines dropped as well.
KeptLine_NoBlank(line) == line # <<" ">> /\ line # <<>>

\* if line != ' ' (lines 174-177)
KeptLine(line) == line # <<" ">>

\* The header left as it is.
repair_hunk_KeepHeader(hunk_lines) ==
  <<hunk_lines[1]>> \o SelectSeq(Tail(hunk_lines), KeptLine)

\* The header dropped.
repair_hunk_DropHeader(hunk_lines) == SelectSeq(Tail(hunk_lines), KeptLine)

\* _repair_hunk (lines 124-179): the header rebuilt from the counted body
\* lines, followed by the body without its single-space lines.
repair_hunk(hunk_lines) ==
  LET m == MatchHeader(hunk_lines[1])
      body == Tail(hunk_lines)
      old_count == CountLines(body, {"-", " "})
      new_count == CountLines(body, {"+", " "})
      new_header ==
        <<"@", "@", " ", "-">> \o ToStr(ToInt(m.old_start)) \o <<",">> \o ToStr(old_count)
          \o <<" ", "+">> \o ToStr(ToInt(m.new_start)) \o <<",">> \o ToStr(new_count)
          \o <<" ", "@", "@">> \o m.context
  IN  IF m.ok THEN <<new_header>> \o SelectSeq(body, KeptLine) ELSE hunk_lines

\* The hunk ended by the next '@@' line only.
HunkBody_NoDiffStop(lines) ==
  LET stops == {j \in 2..Len(lines) : StartsWith(lines[j], HunkMark)}
                \cup {Len(lines) + 1}
  IN  (CHOOSE j \in stops : \A e \in stops : j <= e) - 2

\* The number of lines after the header lines[1] that belong to its hunk:
\* those before the next line starting with '@@' or 'diff --git' (113-116).
HunkBody(lines) ==
  LET stops == {j \in 2..Len(lines) :
                  StartsWith(lines[j], HunkMark) \/ StartsWith(lines[j], DiffGit)}
                \cup {Len(lines) + 1}
  IN  (CHOOSE j \in stops : \A e \in stops : j <= e) - 2

\* The while loop of repair_patch (lines 91-120) over the lines left.
RECURSIVE RepairLines(_)
RepairLines(lines) ==
  IF lines = <<>> THEN <<>>
  ELSE IF ~StartsWith(lines[1], HunkMark) \/ ~MatchHeader(lines[1]).ok
    THEN <<lines[1]>> \o RepairLines(Tail(lines))
  ELSE LET k == HunkBody(lines)
       IN  repair_hunk(SubSeq(lines, 1, k + 1))
             \o RepairLines(SubSeq(lines, k + 2, Len(lines)))

\* The test for the final newline left out.
NeedsNewline_Never(t) == FALSE

\* if not patch.endswith('\n') (line 82)
NeedsNewline(t) == ~EndsWith(t, <<LF>>)

\* repair_patch (lines 62-122)
repair_patch(patch) ==
  LET unix == ReplaceCRLF(patch)
      ended == IF NeedsNewline(unix) THEN unix \o <<LF>> ELSE unix
  IN  Join(RepairLines(Split(ended)))

(* --------------------------- validate_patch --------------------------- *)

\* The issue strings, in the order validate_patch appends them.
HeaderIssue == "Missing 'diff --git' header"
MarkerIssue == "Missing file markers (--- / +++)"
HunkIssue == "No hunks found (missing @@)"
CRLFIssue == "Contains CRLF line endings (should be LF)"

\* Either marker is enough.
has_file_markers_Either(patch) ==
  Contains(patch, <<"-", "-", "-">>) \/ Contains(patch, <<"+", "+", "+">>)

\* '---' in patch and '+++' in patch (line 41)
has_file_markers(patch) ==
  Contains(patch, <<"-", "-", "-">>) /\ Contains(patch, <<"+", "+", "+">>)

\* validate_patch (lines 16-60)
validate_patch(patch) ==
  LET has_diff_header == StartsWith(patch, DiffGit)
      has_hunks == Contains(patch, HunkMark)
      has_crlf == Contains(patch, CRLF)
      issues == (IF ~has_diff_header THEN <<HeaderIssue>> ELSE <<>>)
                  \o (IF ~has_file_markers(patch) THEN <<MarkerIssue>> ELSE <<>>)
                  \o (IF ~has_hunks THEN <<HunkIssue>> ELSE <<>>)
                  \o (IF has_crlf THEN <<CRLFIssue>> ELSE <<>>)
  IN  [valid |-> Len(issues) = 0, issues |-> issues,
       has_diff_header |-> has_diff_header, has_hunks |-> has_hunks]

(* ------------------------ classify_patch_error ------------------------ *)

UpperCase == <<"C", "P", "H", "U", "N", "K">>
LowerCase == <<"c", "p", "h", "u", "n", "k">>

\* c.lower()
Lower(c) ==
  IF \E k \in 1..Len(UpperCase) : UpperCase[k] = c
    THEN LowerCase[CHOOSE k \in 1..Len(UpperCase) : UpperCase[k] = c]
    ELSE c

\* error_message.lower()
LowerText(t) == [i \in 1..Len(t) |-> Lower(t[i])]

CorruptPatch == <<"c", "o", "r", "r", "u", "p", "t", " ", "p", "a", "t", "c", "h">>
DoesNotApply ==
  <<"d", "o", "e", "s", " ", "n", "o", "t", " ", "a", "p", "p", "l", "y">>
Hunk == <<"h", "u", "n", "k">>
NoSuchFile == <<"n", "o", " ", "s", "u", "c", "h", " ", "f", "i", "l", "e">>

\* The hunk test tried before the corrupt-patch test.
classify_patch_error_HunkFirst(given, error_message) ==
  IF ~given \/ error_message = <<>> THEN "success"
  ELSE LET error_lower == LowerText(error_message) IN
       IF Contains(error_lower, DoesNotApply) \/ Contains(error_lower, Hunk)
         THEN "hunk_mismatch"
       ELSE IF Contains(error_lower, CorruptPatch) THEN "corrupt_patch"
       ELSE IF Contains(error_lower, NoSuchFile) THEN "file_not_found"
       ELSE "other_error"

\* classify_patch_error (lines 181-204); given is false for None.
classify_patch_error(given, error_message) ==
  IF ~given \/ error_message = <<>> THEN "success"
  ELSE LET error_lower == LowerText(error_message) IN
       IF Contains(error_lower, CorruptPatch) THEN "corrupt_patch"
       ELSE IF Contains(error_lower, DoesNotApply) \/ Contains(error_lower, Hunk)
         THEN "hunk_mismatch"
       ELSE IF Contains(error_lower, NoSuchFile) THEN "file_not_found"
       ELSE "other_error"

\* The number of parts an error message is put together from.
MaxParts == 2

\* Parts of the messages of git apply, in the spellings of the tests.
Parts ==
  { <<"e", "r", "r", "o", "r", ":", " ">>,
    CorruptPatch \o <<" ">>,
    <<"C", "o", "r", "r", "u", "p", "t", " ", "P", "a", "t", "c", "h", " ">>,
    <<"p", "a", "t", "c", "h", " ">> \o DoesNotApply \o <<" ">>,
    <<"H", "U", "N", "K", " ", "#", "1", " ">>,
    <<"N", "o", " ", "s", "u", "c", "h", " ", "f", "i", "l", "e", " ">>,
    <<"c", "o", "r", "r", "u", "p", "t", " ">>,
    <<"p", "a", "t", "c", "h", " ">> }

\* The error messages handed to classify_patch_error: None, and texts of
\* up to MaxParts parts.
Messages ==
  {[given |-> FALSE, text |-> <<>>]} \cup
  {[given |-> TRUE, text |-> Flatten(ps)] :
     ps \in UNION {[1..k -> Parts] : k \in 0..MaxParts}}

InitMessage ==
  /\ InitManager
  /\ agent = NoAgent
  /\ doc \in {[NoDoc EXCEPT !.stage = "message", !.given = m.given, !.d = m.text] :
                m \in Messages}

\* classify_patch_error is applied to the message.
Classify ==
  /\ doc.stage = "message"
  /\ doc' = [doc EXCEPT !.stage = "classified",
                        !.label = classify_patch_error(doc.given, doc.d)]
  /\ UNCHANGED <<mgr, loop, agent>>

(* ------------------------ texts handed in ----------------------------- *)

\* The number of pieces a text is put together from.
MaxPieces == 2

\* Lines of a diff: a hunk header with a leading zero, one count left out
\* and a section name; a '@@' line that is no hunk header; the file header
\* lines; a context line; a line of a single space; an empty line; a line
\* that is a carriage return.
HunkLine ==
  <<"@", "@", " ", "-", "0", "1", ",", "9", " ", "+", "2", " ", "@", "@", " ", "f">>
MarkLine == <<"@", "@", " ", "x">>
DiffLine == DiffGit \o <<" ", "a", " ", "b">>
OldLine == <<"-", "-", "-", " ", "a">>
NewLine == <<"+", "+", "+", " ", "b">>
ContextLine == <<" ", "c">>
SpaceLine == <<" ">>
EmptyLine == <<>>
CRLine == <<CR>>

Lines ==
  {HunkLine, MarkLine, DiffLine, OldLine, NewLine, ContextLine, SpaceLine,
   EmptyLine, CRLine}

\* How a line ends: not at all, with LF or with CRLF.
LineEnds == {<<>>, <<LF>>, CRLF}

Pieces == {l \o e : l \in Lines, e \in LineEnds}

\* The header of a diff of one file.
FileHeader == DiffLine \o <<LF>> \o OldLine \o <<LF>> \o NewLine \o <<LF>>

\* The texts handed to the validator: up to MaxPieces pieces, after a file
\* header or not, and before the header of a following file or not.
Texts ==
  {h \o Flatten(ps) \o t : h \in {<<>>, FileHeader},
                           ps \in UNION {[1..k -> Pieces] : k \in 0..MaxPieces},
                           t \in {<<>>, FileHeader}}

InitText ==
  /\ InitManager
  /\ agent = NoAgent
  /\ doc \in {[NoDoc EXCEPT !.stage = "input", !.d = t] : t \in Texts}

\* repair_patch is applied to the text.
Repair ==
  /\ doc.stage = "input"
  /\ doc' = [doc EXCEPT !.stage = "repaired", !.r1 = repair_patch(doc.d)]
  /\ UNCHANGED <<mgr, loop, agent>>

\* validate_patch is applied to the text.
Validate ==
  /\ doc.stage = "input"
  /\ doc' = [doc EXCEPT !.stage = "validated", !.report = validate_patch(doc.d)]
  /\ UNCHANGED <<mgr, loop, agent>>

\* repair_patch is applied to its own result.
RepairAgain ==
  /\ doc.stage = "repaired"
  /\ doc' = [doc EXCEPT !.stage = "twice", !.r2 = repair_patch(doc.r1)]
  /\ UNCHANGED <<mgr, loop, agent>>

(* --------------------------- best-of-N agents ------------------------- *)

\* The largest max_n and fixed_n an agent is run with.
MaxN == 5

\* Values predictor.predict returns, on both sides of determine_n's steps.
PredictedTokens == {999, 1000, 1399, 1400, 1799, 1800}

\* len(result['model_patch']) of an attempt: no patch, and patches on both
\* sides of the length tested by the early stop.
PatchLens == {0, 100, 101}

\* len(...) > 100 (adaptive_agent.py lines 65 and 97)
MinValidPatch == 100

\* determine_n (predictor.py lines 130-137)
determine_n(predicted_tokens) ==
  IF predicted_tokens < 1000 THEN 1
  ELSE IF predicted_tokens < 1400 THEN 3
  ELSE IF predicted_tokens < 1800 THEN 5
  ELSE 8

\* The result of solve for a patch of the given length (base_agent.py
\* lines 97-113): success is len(patch) > 0.
SolveResult(len) == [success |-> len > 0, len |-> len]

\* The early stop left out.
EarlyStops_Never(early_stop, result) == FALSE

\* early_stop and result['success'] and len(result['model_patch']) > 100
EarlyStops(early_stop, result) ==
  early_stop /\ result.success /\ result.len > MinValidPatch

\* _select_best_solution (adaptive_agent.py lines 95-107, fixed_agent.py
\* lines 78-88), as the place of the solution it returns: the first
\* successful one longer than 100, otherwise the first of the longest
\* (sorted is stable).
select_best_solution(solutions) ==
  LET idx == 1..Len(solutions)
      valid == {i \in idx : solutions[i].success /\ solutions[i].len > MinValidPatch}
      longest == {i \in idx : \A j \in idx : solutions[j].len <= solutions[i].len}
      First(S) == CHOOSE i \in S : \A j \in S : i <= j
  IN  IF valid # {} THEN First(valid) ELSE First(longest)

\* The runs: solve_adaptive with a prediction and max_n, solve_fixed with
\* fixed_n, either with or without early_stop.
Runs ==
  {[NoAgent EXCEPT !.stage = "called", !.mode = "adaptive", !.predicted = t,
                   !.max_n = m, !.early_stop = e] :
     t \in PredictedTokens, m \in 0..MaxN, e \in BOOLEAN}
  \cup
  {[NoAgent EXCEPT !.stage = "called", !.mode = "fixed", !.fixed_n = f,
                   !.early_stop = e] :
     f \in 0..MaxN, e \in BOOLEAN}

InitAgent ==
  /\ InitManager
  /\ doc = NoDoc
  /\ agent \in Runs

\* n is allocated (adaptive_agent.py lines 42-44, fixed_agent.py line 49).
AgentStart ==
  /\ agent.stage = "called"
  /\ agent' = [agent EXCEPT
       !.stage = "loop",
       !.n = IF agent.mode = "adaptive"
               THEN Min(determine_n(agent.predicted), agent.max_n)
               ELSE agent.fixed_n]
  /\ UNCHANGED <<mgr, loop, doc>>

\* One pass of the for loop (lines 53-67 and 49-63): solve is called, its
\* result appended, and the early stop tested.
AgentAttempt ==
  /\ agent.stage = "loop"
  /\ Len(agent.solutions) < agent.n
  /\ \E len \in PatchLens :
       LET result == SolveResult(len) IN
       agent' = [agent EXCEPT
         !.solutions = Append(@, result),
         !.stage = IF EarlyStops(agent.early_stop, result) THEN "select" ELSE "loop"]
  /\ UNCHANGED <<mgr, loop, doc>>

\* The loop is over (lines 70-79 and 66-74): the best solution is selected
\* and returned with n_used and n_allocated; with no solution the selection
\* raises IndexError.
AgentReturn ==
  /\ \/ agent.stage = "select"
     \/ agent.stage = "loop" /\ Len(agent.solutions) >= agent.n
  /\ IF agent.solutions = <<>>
       THEN agent' = [agent EXCEPT !.stage = "raised"]
       ELSE agent' = [agent EXCEPT
              !.stage = "returned",
              !.best = select_best_solution(agent.solutions),
              !.n_used = Len(agent.solutions),
              !.n_allocated = agent.n]
  /\ UNCHANGED <<mgr, loop, doc>>

(* --------------------------- specifications --------------------------- *)

\* A step of pipeline p, its calls drawing their arguments from K and P.
Step(p, K, P) ==
  \/ (\E key \in K : GetRepoCall(p, key)) /\ UNCHANGED <<loop, doc, agent>>
  \/ CloneBegin(p) /\ UNCHANGED <<loop, doc, agent>>
  \/ CloneEnd(p) /\ UNCHANGED <<loop, doc, agent>>
  \/ Checkout(p) /\ UNCHANGED <<loop, doc, agent>>
  \/ Fetch(p) /\ UNCHANGED <<loop, doc, agent>>
  \/ (\E path \in Paths, pt \in P : ApplyCall(p, path, pt)) /\ UNCHANGED <<loop, doc, agent>>
  \/ ApplyCheck(p) /\ UNCHANGED <<loop, doc, agent>>
  \/ ApplyMutate(p) /\ UNCHANGED <<loop, doc, agent>>
  \/ (\E path \in Paths : ResetCall(p, path)) /\ UNCHANGED <<loop, doc, agent>>
  \/ ResetRun(p) /\ UNCHANGED <<loop, doc, agent>>

\* One pipeline calling the manager: the sequential use all callers make.
Next == \E p \in Sequential : Step(p, Keys, Patches)

Spec == Init /\ [][Next]_vars

\* Two pipelines sharing one manager (one cache_dir), both working on the
\* same (repo, base_commit) with patches that are well formed.
ConcKeys == {[repo |-> RepoSlash, commit |-> CommitOld]}
ConcPatches == {"P1", "P2"}

NextConc == \E p \in Pipelines : Step(p, ConcKeys, ConcPatches)

SpecConc == Init /\ [][NextConc]_vars

\* The sequential caller, with git children that may never exit.
NextHang ==
  \E p \in Sequential :
    \/ Step(p, Keys, Patches)
    \/ Hang(p)

SpecHang == Init /\ [][NextHang]_vars

\* validate_patches run over a list of predictions, one after the other.
NextLoop ==
  \E p \in Sequential :
    \/ LoopTop(p) /\ UNCHANGED <<doc, agent>>
    \/ LoopInner(p)
    \/ LoopAfterGet(p) /\ UNCHANGED <<doc, agent>>
    \/ LoopAfterApply(p) /\ UNCHANGED <<doc, agent>>
    \/ LoopAfterReset(p) /\ UNCHANGED <<doc, agent>>

SpecLoop == Init /\ [][NextLoop]_vars

\* The PatchValidator applied to a text.
NextText ==
  \/ Validate
  \/ Repair
  \/ RepairAgain

SpecText == InitText /\ [][NextText]_vars

\* classify_patch_error applied to a message.
NextMessage == Classify

SpecMessage == InitMessage /\ [][NextMessage]_vars

\* A best-of-N run of an agent.
NextAgent ==
  \/ AgentStart
  \/ AgentAttempt
  \/ AgentReturn

SpecAgent == InitAgent /\ [][NextAgent]_vars

(* ------------------------------ claims -------------------------------- *)

Ended(p, op) == pc[p] = "done" /\ frame[p].op = op

Last(tr) == tr[Len(tr)]

\* C1: when apply_patch returns success = false, the working tree at
\* repo_path is what it was before the call.
ApplyAtomicity ==
  \A p \in Sequential :
    Ended(p, "apply_patch") /\ frame[p].res.kind = "ret" /\ ~frame[p].res.success
      => tree[frame[p].path] = frame[p].pre

\* C2: the mutating git apply runs only after the dry run of the same call
\* exited 0; a failed dry run ends the call with success = false and the
\* dry run's stderr as error, no mutating step attempted.
CheckThenCommit ==
  \A p \in Sequential :
    frame[p].op = "apply_patch" =>
      LET tr == frame[p].trace IN
      /\ \A i \in 1..Len(tr) :
           tr[i][1] = "apply" => i = 2 /\ tr[1] = <<"check", "ok">>
      /\ pc[p] = "ap_apply" => tr = << <<"check", "ok">> >>
      /\ pc[p] = "done" /\ Len(tr) >= 1 /\ tr[1] = <<"check", "fail">> =>
           /\ Len(tr) = 1
           /\ frame[p].res = [NoRes EXCEPT !.kind = "ret", !.success = FALSE,
                                           !.error = GitStderr(frame[p].patch)]

CheckThenCommitWitness ==
  \E p \in Sequential :
    /\ Ended(p, "apply_patch")
    /\ frame[p].trace = << <<"check", "ok">>, <<"apply", "ok">> >>
    /\ frame[p].res.success

\* C3: when get_repo fails, no directory remains at the slot path.
NoFailedSlotLeft ==
  \A p \in Sequential :
    Ended(p, "get_repo") /\ frame[p].res.kind = "raise"
      => slot[frame[p].path].st = "absent"

\* C4: a get_repo call for a key an earlier call succeeded for returns the
\* same path, RepoPath of the key, and runs no clone, fetch or checkout.
CacheIdempotence ==
  \A p \in Sequential :
    frame[p].op = "get_repo" =>
      /\ frame[p].res.kind = "ret" =>
           frame[p].res.path = RepoPath(frame[p].key.repo, frame[p].key.commit)
      /\ frame[p].seen =>
           /\ pc[p] = "done"
           /\ frame[p].res.kind = "ret"
           /\ frame[p].trace = <<>>

CacheIdempotenceWitness ==
  \E p \in Sequential :
    /\ Ended(p, "get_repo")
    /\ frame[p].seen
    /\ frame[p].res.kind = "ret"
    /\ frame[p].res.path = RepoPath(frame[p].key.repo, frame[p].key.commit)

\* A get_repo call that saw a miss and has not finished populating the slot.
Populating(p) ==
  /\ frame[p].op = "get_repo"
  /\ pc[p] \in {"gr_clone1", "gr_clone1_run", "gr_clone2", "gr_clone2_run",
                "gr_checkout1", "gr_fetch", "gr_checkout2"}

\* C5: two concurrent get_repo calls never both see a miss on the same
\* slot path and both set out to populate it.
ExclusivePopulation ==
  \A p, q \in Pipelines :
    p # q /\ Populating(p) /\ Populating(q) => frame[p].path # frame[q].path

\* An apply_patch or reset_repo call between two of its git steps.
BetweenSteps(p) ==
  \/ frame[p].op = "apply_patch" /\ pc[p] = "ap_apply"
  \/ frame[p].op = "reset_repo" /\ pc[p] = "rs_run" /\ Len(frame[p].trace) >= 1

\* C6: the git steps of two pipelines' apply_patch and reset_repo calls on
\* one slot path never interleave.
SlotSerialized ==
  \A p, q \in Pipelines :
    p # q /\ BetweenSteps(p) /\ BetweenSteps(q) => frame[p].path # frame[q].path

\* C7: when apply_patch returns or raises, the temporary patch file it
\* created no longer exists.
TempFileRemoved ==
  \A p \in Sequential : Ended(p, "apply_patch") => ~tmp[p]

\* C8: apply_patch always returns a result; no failure propagates out of it
\* as an exception.
ApplyAlwaysReturns ==
  \A p \in Sequential : Ended(p, "apply_patch") => frame[p].res.kind = "ret"

\* C9: reset_repo runs git reset --hard first and git clean only after the
\* reset step succeeded; a failure of either step is raised to the caller.
ResetOrdered ==
  \A p \in Sequential :
    frame[p].op = "reset_repo" =>
      LET tr == frame[p].trace IN
      /\ Len(tr) <= 2
      /\ Len(tr) >= 1 => tr[1][1] = "reset"
      /\ Len(tr) = 2 => tr[1] = <<"reset", "ok">> /\ tr[2][1] = "clean"
      /\ pc[p] = "done" =>
           /\ Len(tr) >= 1
           /\ Last(tr)[2] # "ok" => frame[p].res.kind = "raise"
           /\ frame[p].res.kind = "ret" =>
                tr = << <<"reset", "ok">>, <<"clean", "ok">> >>

ResetOrderedWitness ==
  \E p \in Sequential :
    /\ Ended(p, "reset_repo")
    /\ frame[p].trace = << <<"reset", "fail">> >>
    /\ frame[p].res.kind = "raise"
    /\ IsRepo(slot[frame[p].path])

\* An apply_patch call on a path where an earlier apply_patch attempt was
\* followed by a reset_repo that returned, with a patch valid at HEAD.
AfterCycle(p) ==
  /\ frame[p].op = "apply_patch"
  /\ frame[p].fresh
  /\ frame[p].prev # NoPatch
  /\ WellFormed(frame[p].patch)
  /\ Encodable(frame[p].patch)

ResetFailureSurfaced ==
  /\ loop.resetRaised => loop.stage = "raised" \/ loop.last.result = "reset_failed"
  /\ \A p \in Sequential :
       loop.stage = "apply" /\ frame[p].op = "apply_patch" /\ frame[p].prev # NoPatch
         => frame[p].fresh

\* C12: in get_repo a fetch runs only right after the first checkout
\* failed, the second checkout only right after that fetch succeeded and
\* nothing follows it; a failed first checkout goes on to the fetch, a
\* failed fetch or second checkout raises, a successful first checkout
\* returns with no fetch.
CheckoutRetry ==
  \A p \in Sequential :
    frame[p].op = "get_repo" =>
      LET tr == frame[p].trace
          n == Len(tr)
      IN  /\ \A i \in 1..n :
               /\ tr[i][1] = "fetch" => i > 1 /\ tr[i-1] = <<"checkout1", "fail">>
               /\ tr[i][1] = "checkout2" => i > 1 /\ tr[i-1] = <<"fetch", "ok">> /\ i = n
               /\ tr[i][1] = "checkout1" => \A j \in 1..n : j # i => tr[j][1] # "checkout1"
          /\ n >= 1 =>
               /\ Last(tr) = <<"checkout1", "fail">> => pc[p] = "gr_fetch"
               /\ Last(tr) = <<"fetch", "ok">> => pc[p] = "gr_checkout2"
               /\ Last(tr) \in {<<"checkout1", "ok">>, <<"checkout2", "ok">>} =>
                    pc[p] = "done" /\ frame[p].res.kind = "ret"
               /\ Last(tr)[1] \in {"fetch", "checkout2"} /\ Last(tr)[2] # "ok" =>
                    /\ pc[p] = "done"
                    /\ frame[p].res = [NoRes EXCEPT !.kind = "raise",
                                                    !.error = Exc(Last(tr)[2])]

CheckoutRetryWitness ==
  \E p \in Sequential :
    /\ Ended(p, "get_repo")
    /\ frame[p].res.kind = "ret"
    /\ Len(frame[p].trace) = 4
    /\ SubSeq(frame[p].trace, 2, 4) =
         << <<"checkout1", "fail">>, <<"fetch", "ok">>, <<"checkout2", "ok">> >>

\* C13: in get_repo the second clone runs only right after the first clone
\* timed out, with no depth limit and a longer timeout; a first clone that
\* timed out goes on to it, and a second clone that does not succeed raises,
\* no clone following it.
CloneTimeoutRetry ==
  /\ StepArgs("clone1").depth = 1
  /\ StepArgs("clone2").depth = NoDepth
  /\ StepArgs("clone2").timeout > StepArgs("clone1").timeout
  /\ \A p \in Sequential :
       frame[p].op = "get_repo" =>
         LET tr == frame[p].trace
             n == Len(tr)
         IN  /\ \A i \in 1..n :
                  /\ tr[i][1] = "clone1" => i = 1
                  /\ tr[i][1] = "clone2" => i = 2 /\ tr[1] = <<"clone1", "timeout">>
             /\ n >= 1 =>
                  /\ Last(tr) = <<"clone1", "timeout">> =>
                       pc[p] \in {"gr_clone2", "gr_clone2_run"}
                  /\ Last(tr)[1] = "clone2" /\ Last(tr)[2] # "ok" =>
                       /\ pc[p] = "done"
                       /\ frame[p].res = [NoRes EXCEPT !.kind = "raise",
                                                       !.error = Exc(Last(tr)[2])]

CloneTimeoutRetryWitness ==
  \E p \in Sequential :
    /\ Ended(p, "get_repo")
    /\ frame[p].trace = << <<"clone1", "timeout">>, <<"clone2", "timeout">> >>
    /\ frame[p].res.error = "TimeoutExpired"

\* A get_repo call that raised out of one of its clone steps.
CloneFailed(p) ==
  /\ Ended(p, "get_repo")
  /\ frame[p].res.kind = "raise"
  /\ Last(frame[p].trace)[1] \in {"clone1", "clone2"}

\* C14, as claimed: whenever get_repo fails in a clone step, the first clone
\* was followed by exactly one retry.
EveryCloneFailureRetried ==
  \A p \in Sequential :
    CloneFailed(p) =>
      /\ Len(frame[p].trace) = 2
      /\ frame[p].trace[1][1] = "clone1"
      /\ frame[p].trace[2][1] = "clone2"

\* C14, amended: a get_repo that fails in a clone step either had its first
\* clone time out and the one retry not succeed, or had its first clone fail
\* otherwise, which raised at once with no retry.
TimeoutOnlyRetried ==
  \A p \in Sequential :
    CloneFailed(p) =>
      LET tr == frame[p].trace IN
      \/ tr = << <<"clone1", "fail">> >> /\ frame[p].res.error = "CalledProcessError"
      \/ /\ Len(tr) = 2
         /\ tr[1] = <<"clone1", "timeout">>
         /\ tr[2][1] = "clone2"
         /\ tr[2][2] \in {"fail", "timeout"}

TimeoutOnlyRetriedWitness ==
  \E p \in Sequential :
    /\ CloneFailed(p)
    /\ frame[p].trace = << <<"clone1", "timeout">>, <<"clone2", "fail">> >>
    /\ slot[frame[p].path].st = "absent"

\* C15: every git step of get_repo, apply_patch and reset_repo is issued
\* with a timeout, and no call waits for ever on a child that never exits.
EveryStepTimed ==
  \A p \in Sequential :
    /\ CurrentStep(p) # "none" => StepArgs(CurrentStep(p)).timeout # NoTimeout
    /\ pc[p] # "hung"

Repaired == doc.stage \in {"repaired", "twice"}

\* C16: repair_patch applied to its own result returns that result.
RepairIdempotent == doc.stage = "twice" => doc.r2 = doc.r1

\* The count a hunk header declares (a count left out stands for 1).
Declared(count) == IF count = <<>> THEN 1 ELSE ToInt(count)

\* C17: in the repaired text every hunk header declares as old count the
\* number of context and removed lines of the body emitted after it, and
\* as new count the number of context and added lines.
CountInvariant ==
  Repaired =>
    LET lines == Split(doc.r1) IN
    \A i \in 1..Len(lines) :
      LET m == MatchHeader(lines[i])
          k == HunkBody(SubSeq(lines, i, Len(lines)))
          body == SubSeq(lines, i + 1, i + k)
      IN  m.ok =>
            /\ Declared(m.old_count) = CountLines(body, {" ", "-"})
            /\ Declared(m.new_count) = CountLines(body, {" ", "+"})

\* C18: the repaired text contains no CR LF sequence.
RepairRemovesCRLF == Repaired => ~Contains(doc.r1, CRLF)

\* C19, as claimed: the repaired text ends with exactly one LF.
ExactlyOneLF ==
  Repaired =>
    LET n == Len(doc.r1) IN
    /\ n >= 1
    /\ doc.r1[n] = LF
    /\ n >= 2 => doc.r1[n - 1] # LF

\* C19, amended: the repaired text ends with LF; the empty text becomes a
\* single LF.
EndsWithLF ==
  Repaired =>
    /\ Len(doc.r1) >= 1
    /\ Last(doc.r1) = LF
    /\ doc.d = <<>> => doc.r1 = <<LF>>

EndsWithLFWitness ==
  /\ doc.stage = "repaired"
  /\ doc.d = ContextLine
  /\ doc.r1 = ContextLine \o <<LF>>

\* The place of an issue in the order validate_patch appends issues in.
IssueOrder == <<HeaderIssue, MarkerIssue, HunkIssue, CRLFIssue>>
Place(issue) == CHOOSE k \in 1..Len(IssueOrder) : IssueOrder[k] = issue
Reported(r, issue) == \E i \in 1..Len(r.issues) : r.issues[i] = issue

\* C20: validate_patch reports one issue per failed check, in the fixed
\* order, each check judged on its own; valid holds exactly when no issue
\* is reported, has_diff_header and has_hunks are false exactly when their
\* issues are reported.
ValidatorResult ==
  doc.stage = "validated" =>
    LET r == doc.report
        d == doc.d
    IN  /\ Reported(r, HeaderIssue) <=> ~StartsWith(d, DiffGit)
        /\ Reported(r, MarkerIssue) <=>
             ~Contains(d, <<"-", "-", "-">>) \/ ~Contains(d, <<"+", "+", "+">>)
        /\ Reported(r, HunkIssue) <=> ~Contains(d, HunkMark)
        /\ Reported(r, CRLFIssue) <=> Contains(d, CRLF)
        /\ \A i \in 1..Len(r.issues) :
             /\ \E k \in 1..Len(IssueOrder) : IssueOrder[k] = r.issues[i]
             /\ \A j \in 1..(i - 1) : Place(r.issues[j]) < Place(r.issues[i])
        /\ r.valid <=> r.issues = <<>>
        /\ ~r.has_diff_header <=> Reported(r, HeaderIssue)
        /\ ~r.has_hunks <=> Reported(r, HunkIssue)

ValidatorResultWitness ==
  /\ doc.stage = "validated"
  /\ doc.d = CRLF
  /\ doc.report = [valid |-> FALSE, issues |-> IssueOrder,
                   has_diff_header |-> FALSE, has_hunks |-> FALSE]

Labels == {"success", "corrupt_patch", "hunk_mismatch", "file_not_found", "other_error"}

LongPatch(r) == r.success /\ r.len > 100

\* C22: a best-of-N run allocates min(determine_n(predicted), max_n) or
\* fixed_n, never makes more attempts than that, reports n_allocated = n
\* and n_used = the attempts made, all n of them without early_stop; with
\* early_stop no attempt follows a successful one with a patch longer than
\* 100 characters, and a run that used fewer than n ended on such an attempt.
AttemptBudget ==
  LET sols == agent.solutions
      n == IF agent.mode = "adaptive"
             THEN Min(determine_n(agent.predicted), agent.max_n)
             ELSE agent.fixed_n
  IN  /\ agent.stage \in {"loop", "select", "returned"} =>
           /\ agent.n = n
           /\ Len(sols) <= n
           /\ \A i \in 1..(Len(sols) - 1) : ~(agent.early_stop /\ LongPatch(sols[i]))
      /\ agent.stage = "returned" =>
           /\ agent.n_allocated = n
           /\ agent.n_used = Len(sols)
           /\ agent.n_used <= agent.n_allocated
           /\ ~agent.early_stop => agent.n_used = agent.n_allocated
           /\ agent.n_used < agent.n_allocated =>
                agent.early_stop /\ LongPatch(sols[Len(sols)])

AttemptBudgetWitness ==
  /\ agent.stage = "returned"
  /\ agent.mode = "adaptive"
  /\ agent.early_stop
  /\ agent.n_allocated = 5
  /\ agent.n_used = 2

\* C23: the solution returned is the first with a non-empty patch, the
\* first solution if all patches are empty.
FirstNonEmptySelected ==
  agent.stage = "returned" =>
    LET sols == agent.solutions
        nonempty == {i \in 1..Len(sols) : sols[i].len > 0}
    IN  agent.best = IF nonempty = {} THEN 1
                     ELSE CHOOSE i \in nonempty : \A j \in nonempty : i <= j

\* The text as repair_patch splits it into lines: CR LF replaced by LF
\* from the left, an LF added to a text that does not end with one.
InLines ==
  LET unix == ReplaceCRLF(doc.d)
  IN  Split(IF EndsWith(unix, <<LF>>) THEN unix ELSE unix \o <<LF>>)

OutLines == Split(doc.r1)

IsHeader(line) == MatchHeader(line).ok

\* The places of the hunk headers among the lines.
Headers(lines) == {i \in 1..Len(lines) : IsHeader(lines[i])}

\* The end of the hunk block of header i: the next line that begins with
\* '@@' or 'diff --git', or the end of the text.
Stop(lines, i) ==
  LET stops == {j \in (i + 1)..Len(lines) :
                  StartsWith(lines[j], HunkMark) \/ StartsWith(lines[j], DiffGit)}
                \cup {Len(lines) + 1}
  IN  CHOOSE j \in stops : \A e \in stops : j <= e

\* The lines repair removes: single spaces inside the block of a header
\* of H.
Dropped(lines, H) ==
  {j \in 1..Len(lines) :
     lines[j] = <<" ">> /\ \E i \in H : i < j /\ j < Stop(lines, i)}

\* The place in the repaired text of line i of the text, D being removed.
Pos(D, i) == i - Cardinality({j \in D : j < i})

StartingWith(lines, from, to, chars) ==
  Cardinality({j \in from..to : lines[j] # <<>> /\ lines[j][1] \in chars})

\* C24: every hunk header of the text is emitted as '@@ -a,b +c,d @@tail'
\* with its own start numbers and tail, b the number of lines of its block
\* that start with '-' or ' ' and d the number that start with '+' or ' '.
HeaderRule ==
  doc.stage = "repaired" =>
    LET inl == InLines
        out == OutLines
        H == Headers(inl)
        D == Dropped(inl, H)
    IN  \A i \in H :
          LET a == MatchHeader(inl[i])
              s == Stop(inl, i)
              q == Pos(D, i)
          IN  /\ q <= Len(out)
              /\ LET b == MatchHeader(out[q]) IN
                 /\ b.ok
                 /\ ToInt(b.old_start) = ToInt(a.old_start)
                 /\ ToInt(b.new_start) = ToInt(a.new_start)
                 /\ b.context = a.context
                 /\ b.old_count # <<>> /\ b.new_count # <<>>
                 /\ ToInt(b.old_count) = StartingWith(inl, i + 1, s - 1, {"-", " "})
                 /\ ToInt(b.new_count) = StartingWith(inl, i + 1, s - 1, {"+", " "})

HeaderRuleWitness ==
  /\ doc.stage = "repaired"
  /\ doc.d = HunkLine \o CRLF \o OldLine \o <<LF>>
  /\ doc.r1 = <<"@", "@", " ", "-", "1", ",", "1", " ", "+", "2", ",", "0", " ",
                "@", "@", " ", "f", LF>> \o OldLine \o <<LF>>

\* C25: the repaired text is the text line by line, in order, without the
\* single-space lines of its hunk blocks and with a hunk header wherever
\* the text has one; a text without a hunk header comes back as it is.
RepairFrame ==
  doc.stage = "repaired" =>
    LET inl == InLines
        out == OutLines
        H == Headers(inl)
        D == Dropped(inl, H)
    IN  /\ Len(out) = Len(inl) - Cardinality(D)
        /\ \A i \in 1..Len(inl) :
             i \notin D =>
               LET q == Pos(D, i) IN
               /\ q \in 1..Len(out)
               /\ IF i \in H THEN IsHeader(out[q]) ELSE out[q] = inl[i]
        /\ H = {} => out = inl

\* A single-space line inside a hunk is removed, the lines after it kept.
RepairFrameWitness ==
  /\ doc.stage = "repaired"
  /\ doc.d = HunkLine \o <<LF>> \o SpaceLine \o <<LF>> \o FileHeader
  /\ Len(InLines) = 6
  /\ Len(OutLines) = 5
  /\ SubSeq(OutLines, 2, 5) = SubSeq(InLines, 3, 6)

\* C26: a hunk's counts come from the lines between its header and the
\* next line that begins with '@@' or 'diff --git', and no line from that
\* line on is removed as part of the hunk.
HunkExtent ==
  doc.stage = "repaired" =>
    LET inl == InLines
        out == OutLines
        H == Headers(inl)
        D == Dropped(inl, H)
    IN  \A i \in H :
          LET s == Stop(inl, i)
              q == Pos(D, i)
              e == Pos(D, s)
          IN  /\ e <= Len(out) + 1
              /\ e - q - 1 = (s - i - 1) - Cardinality({j \in D : i < j /\ j < s})
              /\ Declared(MatchHeader(out[q]).old_count)
                   = StartingWith(inl, i + 1, s - 1, {"-", " "})
              /\ Declared(MatchHeader(out[q]).new_count)
                   = StartingWith(inl, i + 1, s - 1, {"+", " "})
              /\ s <= Len(inl) =>
                   /\ e <= Len(out)
                   /\ IF s \in H THEN IsHeader(out[e]) ELSE out[e] = inl[s]
                   /\ \A j \in s..(Stop(inl, s) - 1) : s \notin H => j \notin D

\* A hunk followed by the header of the next file.
HunkExtentWitness ==
  /\ doc.stage = "repaired"
  /\ doc.d = HunkLine \o <<LF>> \o ContextLine \o <<LF>> \o FileHeader
  /\ doc.r1 = <<"@", "@", " ", "-", "1", ",", "1", " ", "+", "2", ",", "1", " ",
                "@", "@", " ", "f", LF>> \o ContextLine \o <<LF>> \o FileHeader

\* C27: validate_patch reports the same has_diff_header and has_hunks for
\* the repaired text as for the text.
FlagsPreserved ==
  doc.stage = "repaired" =>
    /\ validate_patch(doc.r1).has_diff_header = validate_patch(doc.d).has_diff_header
    /\ validate_patch(doc.r1).has_hunks = validate_patch(doc.d).has_hunks

FlagsPreservedWitness ==
  /\ doc.stage = "repaired"
  /\ doc.d = FileHeader \o HunkLine \o CRLF \o SpaceLine \o <<LF>>
  /\ validate_patch(doc.r1).has_diff_header
  /\ validate_patch(doc.r1).has_hunks
  /\ doc.r1 # doc.d

\* A get_repo call that returned the slot path because the path existed.
Hit(p) ==
  /\ Ended(p, "get_repo")
  /\ frame[p].res.kind = "ret"
  /\ frame[p].trace = <<>>

\* C28: no get_repo call has returned a slot path as a cache hit while
\* another pipeline's call is still cloning into that path or checking the
\* commit out there.
NoHalfPopulatedHit ==
  \A p, q \in Pipelines :
    p # q /\ Hit(p) /\ Populating(q) => frame[q].path # frame[p].path

\* C29: when get_repo(repo, commit) has returned a path, the slot at that
\* path is a complete clone of repo with commit checked out.
ReturnedAtCommit ==
  \A p \in Sequential :
    Ended(p, "get_repo") /\ frame[p].res.kind = "ret" =>
      /\ slot[frame[p].res.path].st = "ready"
      /\ slot[frame[p].res.path].repo = frame[p].key.repo
      /\ slot[frame[p].res.path].head = frame[p].key.commit

\* C30: two different (repo, commit) pairs get_repo has returned a path for
\* have different slot paths.
SlotKeysInjective ==
  \A k1, k2 \in served :
    k1 # k2 => RepoPath(k1.repo, k1.commit) # RepoPath(k2.repo, k2.commit)

====
